---- MODULE Spec2Model ----
(***************************************************************************)
(* A model of src/server/floco.py: the simplex projection and scale search *)
(* (project_clients, _project_client, _riesz_s_energy), the server's round  *)
(* handler and package() (FlocoServer), and the convex-combination layer   *)
(* (SimplexModel.forward, SimplexLinear).                                  *)
(*                                                                         *)
(* Numbers.  The program computes in floating point; the model computes    *)
(* the same expressions over rationals, with one effect of rounding kept:  *)
(* a matrix entry is either small (s / VDen) or a multiple of 2^60, next   *)
(* to which a small addend is lost.  A projected row is a record           *)
(* [kind, num, den] standing for the reals num[i] / den, or for a row of   *)
(* NaN or of inf.  Squared                                                 *)
(* distances and energies exceed 32 bits, so they are kept as naturals in  *)
(* base 10^4 (little-endian digit sequences).  log is strictly monotone,   *)
(* so a finite log_energy is represented by its argument energy / count.   *)
(***************************************************************************)
EXTENDS Integers, Sequences, FiniteSets, TLC

\* ------------------------------------------------------------------ bounds
MaxN == 3
MaxE == 2
SweepLen == 3
MaxCoord == 2
VDen == 2
MaxStep == 1
MaxId == 2
MaxEpoch == 2

\* ------------------------------------------------------- program constants
\* np.linspace(1e-4, 1, 1000): the first value is 1 / ZScale, the last is 1.
ZScale == 10000
\* epsilon = 1e-4 = 1 / EpsDen
EpsDen == 10000
\* --rho, default 0.1 = 1 / RhoDen
RhoDen == 10

\* best_projection = None / projected_clients = None: no matrix (a matrix has
\* at least one row)
None == <<>>

\* ------------------------------------------------------- integer helpers
Abs(x) == IF x < 0 THEN -x ELSE x

Max2(a, b) == IF a >= b THEN a ELSE b

RECURSIVE Gcd(_, _)
Gcd(a, b) == IF b = 0 THEN a ELSE Gcd(b, a % b)

RECURSIVE SumSeq(_)
SumSeq(s) == IF s = <<>> THEN 0 ELSE Head(s) + SumSeq(Tail(s))

RECURSIVE GcdSeq(_)
GcdSeq(s) == IF s = <<>> THEN 0 ELSE Gcd(Abs(Head(s)), GcdSeq(Tail(s)))

\* ------------------------------------- naturals beyond 32 bits (base 10^4)
Base == 10^4

RECURSIVE BFromInt(_)
BFromInt(n) == IF n = 0 THEN <<>> ELSE <<n % Base>> \o BFromInt(n \div Base)

BHead(a) == IF a = <<>> THEN 0 ELSE Head(a)

BTail(a) == IF a = <<>> THEN <<>> ELSE Tail(a)

RECURSIVE BAddC(_, _, _)
BAddC(a, b, c) ==
    IF a = <<>> /\ b = <<>>
    THEN (IF c = 0 THEN <<>> ELSE <<c>>)
    ELSE LET x == BHead(a) + BHead(b) + c
         IN  <<x % Base>> \o BAddC(BTail(a), BTail(b), x \div Base)

BAdd(a, b) == BAddC(a, b, 0)

RECURSIVE BStrip(_)
BStrip(a) ==
    IF a = <<>> THEN <<>>
    ELSE IF a[Len(a)] = 0 THEN BStrip(SubSeq(a, 1, Len(a) - 1)) ELSE a

RECURSIVE BSubC(_, _, _)
BSubC(a, b, c) ==
    IF a = <<>> THEN <<>>
    ELSE LET x == Head(a) - BHead(b) - c
         IN  IF x < 0
             THEN <<x + Base>> \o BSubC(Tail(a), BTail(b), 1)
             ELSE <<x>> \o BSubC(Tail(a), BTail(b), 0)

RECURSIVE BCmpMS(_, _)
BCmpMS(a, b) ==
    IF a = <<>> THEN 0
    ELSE IF a[Len(a)] < b[Len(b)] THEN -1
    ELSE IF a[Len(a)] > b[Len(b)] THEN 1
    ELSE BCmpMS(SubSeq(a, 1, Len(a) - 1), SubSeq(b, 1, Len(b) - 1))

\* -1, 0, 1 as a < b, a = b, a > b
BCmp(a, b) ==
    IF Len(a) < Len(b) THEN -1
    ELSE IF Len(a) > Len(b) THEN 1
    ELSE BCmpMS(a, b)

\* |a - b|
BAbsDiff(a, b) ==
    IF BCmp(a, b) >= 0 THEN BStrip(BSubC(a, b, 0)) ELSE BStrip(BSubC(b, a, 0))

RECURSIVE BMulDigit(_, _, _)
BMulDigit(a, d, c) ==
    IF a = <<>>
    THEN (IF c = 0 THEN <<>> ELSE <<c>>)
    ELSE LET x == Head(a) * d + c
         IN  <<x % Base>> \o BMulDigit(Tail(a), d, x \div Base)

BShift(a) == IF a = <<>> THEN <<>> ELSE <<0>> \o a

RECURSIVE BMul(_, _)
BMul(a, b) ==
    IF a = <<>> \/ b = <<>> THEN <<>>
    ELSE BAdd(BStrip(BMulDigit(a, Head(b), 0)), BShift(BMul(a, Tail(b))))

BSquare(a) == BMul(a, a)

\* Non-negative rationals [n, d] over these naturals.
QLess(x, y) == BCmp(BMul(x.n, y.d), BMul(y.n, x.d)) < 0

QEq(x, y) == BCmp(BMul(x.n, y.d), BMul(y.n, x.d)) = 0

QAdd(x, y) ==
    [n |-> BAdd(BMul(x.n, y.d), BMul(y.n, x.d)), d |-> BMul(x.d, y.d)]

QZero == [n |-> <<>>, d |-> <<1>>]

\* ------------------------------------------------------------ the sweep
\* np.linspace(1e-4, 1, 1000)[k-1], here with SweepLen values: the rational
\* ZNum(k) / ZDen.
ZDen == ZScale * Max2(SweepLen - 1, 1)

ZNum(k) == Max2(SweepLen - 1, 1) + (k - 1) * (ZScale - 1)

ZVal(k) == [n |-> ZNum(k), d |-> ZDen]

\* --------------------------------------------------- float64 magnitudes
\* A matrix entry is a record [h, s] standing for the double
\* h * Huge + s / VDen, where Huge = 2^60: so large that a double holding a
\* multiple of it absorbs any addend of the sweep's magnitude
\* (2^60 + z = 2^60 for every z <= 2^6).  An input entry is either small
\* (h = 0) or a multiple of Huge (s = 0).  Fl rounds a sum to a double: next
\* to a multiple of Huge the small part is lost.  Arithmetic among small
\* values is exact in the model.
Fl(x) == IF x.h # 0 THEN [h |-> x.h, s |-> 0] ELSE x

TAdd(x, y) == Fl([h |-> x.h + y.h, s |-> x.s + y.s])

TLess(x, y) == x.h < y.h \/ (x.h = y.h /\ x.s < y.s)

TPos(x) == x.h > 0 \/ (x.h = 0 /\ x.s > 0)

TNeg(x) == x.h < 0 \/ (x.h = 0 /\ x.s < 0)

\* --------------------------------------------------------- _project_client
\* A row of a returned matrix: kind "fin" with the reals num[i] / den, kind
\* "inf" (every entry +inf) or kind "nan" (every entry NaN).
NaNRow == [kind |-> "nan", num |-> <<>>, den |-> 1]

InfRow == [kind |-> "inf", num |-> <<>>, den |-> 1]

ZeroRow(n) == [kind |-> "fin", num |-> [j \in 1..n |-> 0], den |-> 1]

IsNaNRow(r) == r.kind = "nan"

SeqMax(s) == CHOOSE m \in {s[j] : j \in 1..Len(s)} : \A j \in 1..Len(s) : ~TLess(m, s[j])

FirstIndexOf(s, m) == CHOOSE j \in 1..Len(s) : s[j] = m /\ \A t \in 1..(j - 1) : s[t] # m

RemoveAt(s, j) == SubSeq(s, 1, j - 1) \o SubSeq(s, j + 1, Len(s))

\* np.sort(V, axis=1)[:, ::-1] on one row
RECURSIVE SortDesc(_)
SortDesc(s) ==
    IF s = <<>> THEN <<>>
    ELSE LET m == SeqMax(s)
         IN  <<m>> \o SortDesc(RemoveAt(s, FirstIndexOf(s, m)))

\* np.cumsum(U, axis=1)[j] on one row: one rounded addition per column
RECURSIVE CumSumAt(_, _)
CumSumAt(U, j) == IF j = 1 THEN U[1] ELSE TAdd(CumSumAt(U, j - 1), U[j])

\* np.cumsum(U, axis=1) - z on one row, small parts in units of
\* 1 / (VDen * z.d)
Cssv(U, zz) == [j \in 1..Len(U) |-> TAdd(CumSumAt(U, j), [h |-> 0, s |-> -zz])]

\* rho = np.count_nonzero(U - cssv / ind > 0) on one row; the sign of
\* U[j] - cssv[j] / j is that of j * U[j] - cssv[j]
Rho(U, cssv) ==
    Cardinality({j \in 1..Len(U) :
        TPos([h |-> j * U[j].h - cssv[j].h, s |-> j * U[j].s - cssv[j].s])})

\* One row of _project_client: theta = cssv[rho - 1] / rho and
\* max(x - theta, 0) = max(rho * x - cssv[rho - 1], 0) / rho.  rho >= 1 only
\* when the row's largest entry is small; cssv[rho - 1] is then small and an
\* entry that is a negative multiple of Huge is cut to 0.  With rho = 0 the
\* index -1 reads the last column and theta = cssv[-1] / 0 is +inf, -inf or
\* NaN, which makes the row all 0, all +inf or all NaN.
ProjectRow(x, z) ==
    LET xs   == [j \in 1..Len(x) |-> [h |-> x[j].h, s |-> x[j].s * z.d]]
        zz   == z.n * VDen
        U    == SortDesc(xs)
        cssv == Cssv(U, zz)
        rho  == Rho(U, cssv)
    IN  IF rho = 0
        THEN (IF TPos(cssv[Len(x)]) THEN ZeroRow(Len(x))
              ELSE IF TNeg(cssv[Len(x)]) THEN InfRow
              ELSE NaNRow)
        ELSE [kind |-> "fin",
              num |-> [j \in 1..Len(x) |->
                          IF rho * xs[j].h - cssv[rho].h < 0 THEN 0
                          ELSE Max2(rho * xs[j].s - cssv[rho].s, 0)],
              den |-> rho * VDen * z.d]

_project_client(V, z) == [r \in 1..Len(V) |-> ProjectRow(V[r], z)]

\* projection /= projection.sum(axis=1, keepdims=True) on one row: entry
\* num[i] / den over row sum S / den is num[i] / S; 0 / 0, inf / inf and NaN
\* make the whole row NaN.  The result is kept in lowest terms.
NormaliseRow(r) ==
    IF r.kind # "fin" THEN NaNRow
    ELSE LET S == SumSeq(r.num)
             g == Gcd(GcdSeq(r.num), Abs(S))
         IN  IF S = 0 THEN NaNRow
             ELSE [kind |-> "fin",
                   num |-> [j \in 1..Len(r.num) |-> r.num[j] \div g],
                   den |-> S \div g]

Normalise(P) == [r \in 1..Len(P) |-> NormaliseRow(P[r])]

\* --------------------------------------------------------- _riesz_s_energy
\* ((a - b)**2).sum() for two normalised rows: SqDistNum / SqDistDen
RECURSIVE SqDistNumFrom(_, _, _)
SqDistNumFrom(a, b, j) ==
    IF j > Len(a.num) THEN <<>>
    ELSE BAdd(BSquare(BAbsDiff(BMul(BFromInt(a.num[j]), BFromInt(b.den)),
                               BMul(BFromInt(b.num[j]), BFromInt(a.den)))),
              SqDistNumFrom(a, b, j + 1))

SqDistNum(a, b) == SqDistNumFrom(a, b, 1)

SqDistDen(a, b) == BSquare(BMul(BFromInt(a.den), BFromInt(b.den)))

EpsSqInv == BSquare(BFromInt(EpsDen))

\* distance[distance < epsilon] = epsilon
Clamped(a, b) == BCmp(BMul(SqDistNum(a, b), EpsSqInv), SqDistDen(a, b)) < 0

\* 1 / mutual_dist ** 2 for one pair of the upper triangle; "nan" when a row
\* is NaN (the term is dropped by energies[~np.isnan(energies)])
PairEnergy(a, b) ==
    IF IsNaNRow(a) \/ IsNaNRow(b) THEN [nan |-> TRUE, n |-> <<>>, d |-> <<1>>]
    ELSE IF Clamped(a, b) THEN [nan |-> FALSE, n |-> EpsSqInv, d |-> <<1>>]
    ELSE [nan |-> FALSE, n |-> SqDistDen(a, b), d |-> SqDistNum(a, b)]

\* np.triu_indices(len(simplex_points), 1), row-major
RECURSIVE PairsFrom(_, _, _)
PairsFrom(n, a, b) ==
    IF a >= n THEN <<>>
    ELSE IF b > n THEN PairsFrom(n, a + 1, a + 2)
    ELSE <<(<<a, b>>)>> \o PairsFrom(n, a, b + 1)

TriuPairs(n) == PairsFrom(n, 1, 2)

\* energies[~np.isnan(energies)].sum()
RECURSIVE EnergySum(_, _)
EnergySum(P, pairs) ==
    IF pairs = <<>> THEN QZero
    ELSE LET e == PairEnergy(P[Head(pairs)[1]], P[Head(pairs)[2]])
         IN  IF e.nan THEN EnergySum(P, Tail(pairs))
             ELSE QAdd(e, EnergySum(P, Tail(pairs)))

\* Values of log_energy: NaN, -inf, +inf, or log(q) for a rational q > 0.
NaN == [kind |-> "nan", q |-> QZero]

NegInf == [kind |-> "-inf", q |-> QZero]

PosInf == [kind |-> "+inf", q |-> QZero]

LogOf(q) == [kind |-> "fin", q |-> q]

IsFinite(x) == x.kind = "fin"

\* -np.log(len(mutual_dist)) + np.log(energy): with no pair this is
\* inf + (-inf) = NaN; with pairs but a zero sum it is -inf; otherwise
\* log(energy / count).
_riesz_s_energy(P) ==
    LET pairs  == TriuPairs(Len(P))
        energy == EnergySum(P, pairs)
    IN  IF energy.n = <<>>
        THEN (IF Len(pairs) = 0 THEN NaN ELSE NegInf)
        ELSE IF Len(pairs) = 0 THEN PosInf
        ELSE LogOf([n |-> energy.n, d |-> BMul(energy.d, BFromInt(Len(pairs)))])

\* x < y on these values (any comparison with NaN is false)
LogLess(x, y) ==
    IF x.kind = "nan" \/ y.kind = "nan" THEN FALSE
    ELSE IF x.kind = "-inf" THEN y.kind # "-inf"
    ELSE IF x.kind = "+inf" THEN FALSE
    ELSE IF y.kind = "-inf" THEN FALSE
    ELSE IF y.kind = "+inf" THEN TRUE
    ELSE QLess(x.q, y.q)

\* x == y on these values
LogEq(x, y) ==
    IF x.kind = "nan" \/ y.kind = "nan" THEN FALSE
    ELSE IF x.kind # "fin" \/ y.kind # "fin" THEN x.kind = y.kind
    ELSE QEq(x.q, y.q)

\* ---------------------------------------------------------- project_clients
\* The k-th iteration's projection (lines 159-160) and score (line 161).
ProjectionAt(V, k) == Normalise(_project_client(V, ZVal(k)))

EnergyAt(V, k) == _riesz_s_energy(ProjectionAt(V, k))

\* log_energy not in [-np.inf, np.inf] and log_energy < lowest_log_energy
AcceptsMutLe(log_energy, lowest) ==
    /\ log_energy.kind \notin {"-inf", "+inf"}
    /\ (LogLess(log_energy, lowest) \/ LogEq(log_energy, lowest))

AcceptsMutNoInfCheck(log_energy, lowest) == LogLess(log_energy, lowest)

Accepts(log_energy, lowest) ==
    /\ log_energy.kind \notin {"-inf", "+inf"}
    /\ LogLess(log_energy, lowest)

\* The loop's state after the body ran for one more z: st holds
\* lowest_log_energy, best_projection and the ghost best_i (the loop index at
\* which best_projection was last assigned; 0 for none).
SweepStep(V, st, k) ==
    LET projection == ProjectionAt(V, k)
        log_energy == _riesz_s_energy(projection)
    IN  IF Accepts(log_energy, st.lowest_log_energy)
        THEN [lowest_log_energy |-> log_energy, best_projection |-> projection,
              best_i |-> k]
        ELSE st

SweepInit == [lowest_log_energy |-> PosInf, best_projection |-> None, best_i |-> 0]

RECURSIVE SweepFrom(_, _, _)
SweepFrom(V, st, k) ==
    IF k > SweepLen THEN st ELSE SweepFrom(V, SweepStep(V, st, k), k + 1)

\* The value project_clients returns for PCA output V
BestProjection(V) == SweepFrom(V, SweepInit, 1).best_projection

\* ------------------------------------------------------ small rationals
\* Mixing coefficients and effective weights: [n, d] with d > 0, in lowest
\* terms.
Rat(n, d) == LET g == Gcd(Abs(n), d) IN [n |-> n \div g, d |-> d \div g]

RAdd(x, y) == Rat(x.n * y.d + y.n * x.d, x.d * y.d)

RScale(x, k) == Rat(x.n * k, x.d)

RZero == [n |-> 0, d |-> 1]

\* ------------------------------------------------------------ SimplexLinear
\* tuple([1 / endpoints for _ in range(endpoints)]) (line 129), and
\* np.ones(E) / np.ones(E).sum() (line 117)
Uniform(e) == [j \in 1..e |-> Rat(1, e)]

\* _initialize_weight(self.weight, seed + i): one matrix per endpoint, distinct
\* by seed; here one number per endpoint.
InitialWeights(e) == [j \in 1..e |-> j]

\* The weight property (line 136): sum(alpha * weight for alpha, weight in
\* zip(self._alphas, self._weights)); zip stops at the shorter sequence.
RECURSIVE WeightFrom(_, _, _)
WeightFrom(alphas, weights, j) ==
    IF j > Len(alphas) \/ j > Len(weights) THEN RZero
    ELSE RAdd(RScale(alphas[j], weights[j]), WeightFrom(alphas, weights, j + 1))

weightMutUniform(alphas, weights) == WeightFrom(Uniform(Len(weights)), weights, 1)

weight(alphas, weights) == WeightFrom(alphas, weights, 1)

\* set_alphas (lines 138-140): the stored vector after the call, and whether
\* the assertion failed
set_alphasMutNoAssert(stored, alphas, weights) == [alphas |-> alphas, raised |-> FALSE]

set_alphasMutNoStore(stored, alphas, weights) ==
    [alphas |-> stored, raised |-> Len(alphas) # Len(weights)]

set_alphas(stored, alphas, weights) ==
    IF Len(alphas) = Len(weights)
    THEN [alphas |-> alphas, raised |-> FALSE]
    ELSE [alphas |-> stored, raised |-> TRUE]

\* ------------------------------------------------------------ sample_L1_ball
\* A mixing coefficient that is NaN
RNaN == [n |-> 0, d |-> 0]

\* u = sign(u) * (|u| / sum(|u|)) for u drawn in [-1, 1]^dim: a point with
\* sum(|u|) = 1; here the points with every |u[j]| = 1 / dim
UnitL1(dim) == {[j \in 1..dim |-> Rat(sg[j], dim)] : sg \in [1..dim -> {-1, 1}]}

\* r = np.random.uniform(0, radius): here 0 or radius / 2
Radii(radius) == {RZero, Rat(radius.n, 2 * radius.d)}

\* samples = center + r * u (line 207); center is a row of the projection
sample_L1_ball(center, r, u) ==
    [j \in 1..Len(u) |->
        IF center.kind # "fin" THEN RNaN
        ELSE RAdd(Rat(center.num[j], center.den), Rat(r.n * u[j].n, r.d * u[j].d))]

\* ------------------------------------------------------------- FlocoServer
\* --rho, default 0.1 = 1 / RhoDen (line 24)
floco_rho == Rat(1, RhoDen)

NoParams == [none |-> TRUE, center |-> NaNRow, radius |-> RZero]

NoPackage ==
    [none |-> TRUE, client |-> 0, sample_from |-> "", subregion_parameters |-> NoParams,
     personalized_model_params |-> "", testing |-> FALSE, had_projection |-> FALSE]

NoForward ==
    [done |-> FALSE, client |-> 0, testing |-> FALSE, had_projection |-> FALSE,
     sample_from |-> "", alphas |-> <<>>, error |-> FALSE]

\* A row of client_stats that is None
NoneRow == -1

\* list(gradient_dict.keys()) (lines 145-151): range(len(client_packages)),
\* then the identifiers of client_packages not among them, in the order
\* client_packages yields them (ascending)
RECURSIVE Ascending(_)
Ascending(S) ==
    IF S = {} THEN <<>>
    ELSE LET m == CHOOSE x \in S : \A y \in S : x <= y
         IN  <<m>> \o Ascending(S \ {m})

GradientKeys(ids) ==
    LET n == Cardinality(ids)
    IN  [k \in 1..n |-> k - 1] \o Ascending(ids \ (0..(n - 1)))

\* For each row of client_stats, the participant whose vector it holds, or
\* NoneRow where gradient_dict kept its initial None
RowSource(ids) ==
    LET keys == GradientKeys(ids)
    IN  [r \in 1..Len(keys) |-> IF keys[r] \in ids THEN keys[r] ELSE NoneRow]

\* package(), lines 76-84: the mode
SampleFromMutSwapped(projected, is_testing) ==
    IF projected = None
    THEN (IF is_testing THEN "simplex_uniform" ELSE "simplex_center")
    ELSE (IF is_testing THEN "region_uniform" ELSE "subregion_center")

SampleFrom(projected, is_testing) ==
    IF projected = None
    THEN (IF is_testing THEN "simplex_center" ELSE "simplex_uniform")
    ELSE (IF is_testing THEN "subregion_center" ELSE "region_uniform")

\* package(), lines 80 and 85-88: projected_clients[client_id] is row
\* client_id, counted from 0
SubregionParameters(projected, client_id) ==
    IF projected = None THEN NoParams
    ELSE [none |-> FALSE, center |-> projected[client_id + 1], radius |-> floco_rho]

\* ------------------------------------------------------------------ state
VARIABLES
    \* _project_client on its own: its arguments, its result, its position
    proj_V, proj_z, proj_out, proj_pc,
    \* project_clients: the PCA output, the number of sweep values done, the
    \* locals of the loop, the ghost best_i, the position
    pca_stats, i, lowest_log_energy, best_projection, best_i, projection,
    log_energy, search_pc,
    \* SimplexLinear: self.endpoints, self._alphas, self._weights; the last
    \* set_alphas call (ghost); the vector of the last set_alphas that passed
    \* (ghost); per caller of SimplexModel.forward its position, its local
    \* alphas and what its last evaluation read (ghost); whether callers
    \* serialise set-then-evaluate, and the caller inside
    lin_endpoints, _alphas, _weights, set_log, last_set, caller_pc,
    caller_alphas, caller_eval, serialised, lock,
    \* FlocoServer: self.train_clients, args.floco.endpoints, args.floco.tau,
    \* args.floco.pers_epoch, self.current_epoch, self.projected_clients,
    \* self.testing, self.clients_personalized_model_params; the package last
    \* returned and not yet consumed; the receiving model's sample_from and
    \* subregion_parameters; what its last forward supplied (ghost); the
    \* participant behind each row of client_stats in project_clients (ghost);
    \* whether the run goes on
    train_clients, endpoints, tau, pers_epoch, current_epoch, projected_clients,
    testing, clients_personalized_model_params, server_package, sample_from,
    subregion_parameters, fwd, row_source, server_pc

projVars == <<proj_V, proj_z, proj_out, proj_pc>>

searchVars == <<pca_stats, i, lowest_log_energy, best_projection, best_i,
                projection, log_energy, search_pc>>

layerVars == <<lin_endpoints, _alphas, _weights, set_log, last_set, caller_pc,
               caller_alphas, caller_eval, serialised, lock>>

serverVars == <<train_clients, endpoints, tau, pers_epoch, current_epoch,
                projected_clients, testing, clients_personalized_model_params,
                server_package, sample_from, subregion_parameters, fwd, row_source,
                server_pc>>

vars == <<projVars, searchVars, layerVars, serverVars>>

ProjIdle ==
    /\ proj_V = <<>>
    /\ proj_z = [n |-> 1, d |-> 1]
    /\ proj_out = <<>>
    /\ proj_pc = "idle"

SearchIdle ==
    /\ pca_stats = <<>>
    /\ i = 0
    /\ lowest_log_energy = PosInf
    /\ best_projection = None
    /\ best_i = 0
    /\ projection = None
    /\ log_energy = PosInf
    /\ search_pc = "idle"

Callers == {1, 2}

NoEval == [done |-> FALSE, own |-> <<>>, used |-> <<>>, by |-> <<>>, weights |-> <<>>,
           w |-> RZero]

NoCall == [arg |-> <<>>, before |-> <<>>, raised |-> FALSE, called |-> FALSE]

LayerIdle ==
    /\ lin_endpoints = 1
    /\ _alphas = Uniform(1)
    /\ _weights = InitialWeights(1)
    /\ set_log = NoCall
    /\ last_set = Uniform(1)
    /\ caller_pc = [c \in Callers |-> "idle"]
    /\ caller_alphas = [c \in Callers |-> <<>>]
    /\ caller_eval = [c \in Callers |-> NoEval]
    /\ serialised = FALSE
    /\ lock = 0

ServerIdle ==
    /\ train_clients = {}
    /\ endpoints = 1
    /\ tau = 0
    /\ pers_epoch = 0
    /\ current_epoch = 0
    /\ projected_clients = None
    /\ testing = FALSE
    /\ clients_personalized_model_params = <<>>
    /\ server_package = NoPackage
    /\ sample_from = "simplex_center"
    /\ subregion_parameters = NoParams
    /\ fwd = NoForward
    /\ row_source = <<>>
    /\ server_pc = "idle"

\* ----------------------------------------------------------------- inputs
Grid == (-MaxCoord)..MaxCoord

Entries == {[h |-> 0, s |-> v] : v \in Grid} \cup {[h |-> a, s |-> 0] : a \in {-1, 1}}

\* All matrices of n rows and e columns over these entries
Matrices(n, e) == [1..n -> [1..e -> Entries]]

\* The dot product of two columns, as the coefficients of Huge^2, Huge and 1
Dot(a, b) ==
    <<SumSeq([r \in 1..Len(a) |-> a[r].h * b[r].h]),
      SumSeq([r \in 1..Len(a) |-> a[r].h * b[r].s + a[r].s * b[r].h]),
      SumSeq([r \in 1..Len(a) |-> a[r].s * b[r].s])>>

DotGe(x, y) ==
    \/ x[1] > y[1]
    \/ x[1] = y[1] /\ x[2] > y[2]
    \/ x[1] = y[1] /\ x[2] = y[2] /\ x[3] >= y[3]

\* What decomposition.PCA(n_components=e).fit_transform can return for n
\* samples: the scores are centred, the components are uncorrelated, and they
\* come in order of non-increasing variance.
CentredCols(n) ==
    {c \in [1..n -> Entries] :
        /\ SumSeq([r \in 1..n |-> c[r].h]) = 0
        /\ SumSeq([r \in 1..n |-> c[r].s]) = 0}

PCAColumns(n, e) ==
    {C \in [1..e -> CentredCols(n)] :
        /\ \A a, b \in 1..e : a < b => Dot(C[a], C[b]) = <<0, 0, 0>>
        /\ \A a \in 1..(e - 1) : DotGe(Dot(C[a], C[a]), Dot(C[a + 1], C[a + 1]))}

PCAOutputs(n, e) ==
    {[r \in 1..n |-> [j \in 1..e |-> C[j][r]]] : C \in PCAColumns(n, e)}

\* The caps tried for _project_client on its own: the sweep's values and
\* some beyond 1
Caps == {ZVal(k) : k \in 1..SweepLen} \cup {[n |-> a, d |-> b] : a \in 1..3, b \in 1..2}

\* --------------------------------------------- _project_client on its own
ProjInit ==
    /\ \E n \in 1..2, e \in 1..MaxE : proj_V \in Matrices(n, e)
    /\ proj_z \in Caps
    /\ proj_out = <<>>
    /\ proj_pc = "call"
    /\ SearchIdle
    /\ LayerIdle
    /\ ServerIdle

Project ==
    /\ proj_pc = "call"
    /\ proj_out' = _project_client(proj_V, proj_z)
    /\ proj_pc' = "returned"
    /\ UNCHANGED <<proj_V, proj_z, searchVars, layerVars, serverVars>>

ProjNext == Project

SpecProject == ProjInit /\ [][ProjNext]_vars

\* ------------------------------------------- project_clients, step by step
SearchInit ==
    /\ \E n \in 1..MaxN, e \in 1..MaxE : e <= n /\ pca_stats \in PCAOutputs(n, e)
    /\ i = 0
    /\ lowest_log_energy = PosInf
    /\ best_projection = None
    /\ best_i = 0
    /\ projection = None
    /\ log_energy = PosInf
    /\ search_pc = "loop"
    /\ ProjIdle
    /\ LayerIdle
    /\ ServerIdle

\* One iteration of the for loop (lines 158-164)
SweepIter ==
    /\ search_pc = "loop"
    /\ i < SweepLen
    /\ LET st == SweepStep(pca_stats,
                           [lowest_log_energy |-> lowest_log_energy,
                            best_projection |-> best_projection,
                            best_i |-> best_i], i + 1)
       IN  /\ lowest_log_energy' = st.lowest_log_energy
           /\ best_projection' = st.best_projection
           /\ best_i' = st.best_i
    /\ projection' = ProjectionAt(pca_stats, i + 1)
    /\ log_energy' = EnergyAt(pca_stats, i + 1)
    /\ i' = i + 1
    /\ UNCHANGED <<pca_stats, search_pc, projVars, layerVars, serverVars>>

\* return best_projection (line 165)
SweepReturn ==
    /\ search_pc = "loop"
    /\ i = SweepLen
    /\ search_pc' = "returned"
    /\ UNCHANGED <<pca_stats, i, lowest_log_energy, best_projection, best_i,
                   projection, log_energy, projVars, layerVars, serverVars>>

SearchNext == SweepIter \/ SweepReturn

SpecSearch == SearchInit /\ [][SearchNext]_vars

\* ------------------------------------ SimplexLinear and its callers
\* The vectors a caller of SimplexModel.forward may hold in alphas (lines
\* 116-120): the uniform vector, or a draw of sample_L1_ball, here a vertex
\* or a point off the simplex.
ForwardAlphas(e) ==
    {Uniform(e),
     [j \in 1..e |-> IF j = 1 THEN Rat(1, 1) ELSE Rat(0, 1)],
     [j \in 1..e |-> IF j = 1 THEN Rat(3, 2) ELSE Rat(-1, 2)]}

\* The arguments tried for a direct call of set_alphas: the above, and
\* vectors one shorter and one longer than the endpoint count
SetAlphasArgs(e) ==
    ForwardAlphas(e)
        \cup {[j \in 1..(e - 1) |-> Rat(1, 2)], [j \in 1..(e + 1) |-> Rat(1, 2)]}

LayerInit ==
    /\ lin_endpoints \in 1..MaxE
    /\ _alphas = Uniform(lin_endpoints)
    /\ _weights = InitialWeights(lin_endpoints)
    /\ set_log = NoCall
    /\ last_set = Uniform(lin_endpoints)
    /\ caller_pc = [c \in Callers |-> "idle"]
    /\ caller_alphas = [c \in Callers |-> <<>>]
    /\ caller_eval = [c \in Callers |-> NoEval]
    /\ serialised \in BOOLEAN
    /\ lock = 0
    /\ ProjIdle
    /\ SearchIdle
    /\ ServerIdle

\* Callers that serialise enter set-then-evaluate one at a time.
MayEnter == ~serialised \/ lock = 0

\* The effect of self.classifier.set_alphas(a) on the layer and on the ghosts
CallSetAlphas(a) ==
    LET res == set_alphas(_alphas, a, _weights)
    IN  /\ _alphas' = res.alphas
        /\ set_log' = [arg |-> a, before |-> _alphas, raised |-> res.raised,
                       called |-> TRUE]
        /\ last_set' = IF res.raised THEN last_set ELSE a

\* SimplexModel.forward up to line 121: choose alphas, set them
ForwardSet(c) ==
    /\ caller_pc[c] = "idle"
    /\ MayEnter
    /\ \E a \in ForwardAlphas(lin_endpoints) :
          /\ CallSetAlphas(a)
          /\ caller_alphas' = [caller_alphas EXCEPT ![c] = a]
          /\ caller_pc' = [caller_pc EXCEPT ![c] =
                              IF set_alphas(_alphas, a, _weights).raised
                              THEN "idle" ELSE "eval"]
    /\ caller_eval' = [caller_eval EXCEPT ![c] = NoEval]
    /\ lock' = IF serialised THEN c ELSE lock
    /\ UNCHANGED <<lin_endpoints, _weights, serialised, projVars, searchVars, serverVars>>

\* SimplexModel.forward line 122: super().forward(x) evaluates the classifier,
\* which reads the weight property
ForwardEval(c) ==
    /\ caller_pc[c] = "eval"
    /\ caller_eval' = [caller_eval EXCEPT ![c] =
                          [done |-> TRUE, own |-> caller_alphas[c], used |-> _alphas,
                           by |-> last_set, weights |-> _weights,
                           w |-> weight(_alphas, _weights)]]
    /\ caller_pc' = [caller_pc EXCEPT ![c] = "idle"]
    /\ lock' = IF serialised THEN 0 ELSE lock
    /\ UNCHANGED <<lin_endpoints, _alphas, _weights, set_log, last_set,
                   caller_alphas, serialised, projVars, searchVars, serverVars>>

\* A direct call of set_alphas
SetAlphas ==
    /\ MayEnter
    /\ \E a \in SetAlphasArgs(lin_endpoints) : CallSetAlphas(a)
    /\ UNCHANGED <<lin_endpoints, _weights, caller_pc, caller_alphas, caller_eval,
                   serialised, lock, projVars, searchVars,
                   serverVars>>

\* The training procedure's update of one endpoint's parameters
UpdateWeights ==
    /\ MayEnter
    /\ \E j \in 1..lin_endpoints :
          /\ _weights[j] < InitialWeights(lin_endpoints)[j] + MaxStep
          /\ _weights' = [_weights EXCEPT ![j] = @ + 1]
    /\ UNCHANGED <<lin_endpoints, _alphas, set_log, last_set, caller_pc,
                   caller_alphas, caller_eval, serialised, lock, projVars, searchVars,
                   serverVars>>

LayerNext ==
    \/ \E c \in Callers : ForwardSet(c)
    \/ \E c \in Callers : ForwardEval(c)
    \/ SetAlphas
    \/ UpdateWeights

SpecLayer == LayerInit /\ [][LayerNext]_vars

\* ------------------------------------------------- FlocoServer and a model
\* FlocoServer.__init__ (lines 34-53) for one configuration
Init ==
    /\ train_clients \in (SUBSET (0..MaxId)) \ {{}}
    /\ endpoints \in 1..MaxE
    /\ tau \in 0..(MaxEpoch - 1)
    /\ pers_epoch \in {0, 1}
    /\ current_epoch = 0
    /\ projected_clients = None
    /\ testing = FALSE
    /\ clients_personalized_model_params =
          IF pers_epoch > 0 THEN [c \in train_clients |-> "initial"] ELSE <<>>
    /\ server_package = NoPackage
    /\ sample_from = "simplex_center"
    /\ subregion_parameters = NoParams
    /\ fwd = NoForward
    /\ row_source = <<>>
    /\ server_pc = "running"
    /\ ProjIdle
    /\ SearchIdle
    /\ LayerIdle

\* train_one_round (lines 55-72) for the round current_epoch, after which the
\* round loop moves to the next round.  At round tau every train client
\* reports and project_clients runs: np.array over a None row raises, PCA
\* raises when it is asked for more components than there are rows.
TrainOneRound ==
    /\ server_pc = "running"
    /\ server_package.none
    /\ ~testing
    /\ current_epoch < MaxEpoch
    /\ LET at_tau == tau = current_epoch
           n == Cardinality(train_clients)
           source == RowSource(train_clients)
           raises ==
               /\ at_tau
               /\ \/ \E r \in 1..Len(source) : source[r] = NoneRow
                  \/ endpoints > n
       IN  /\ row_source' = IF at_tau THEN source ELSE row_source
           /\ IF raises
              THEN /\ server_pc' = "raised"
                   /\ UNCHANGED <<projected_clients, clients_personalized_model_params,
                                  current_epoch>>
              ELSE /\ IF at_tau
                      THEN \E V \in PCAOutputs(n, endpoints) :
                              projected_clients' = BestProjection(V)
                      ELSE UNCHANGED projected_clients
                   /\ \E selected \in
                          IF at_tau THEN {train_clients} ELSE (SUBSET train_clients) \ {{}} :
                          clients_personalized_model_params' =
                              IF pers_epoch > 0
                              THEN [c \in train_clients |->
                                       IF c \in selected THEN "trained"
                                       ELSE clients_personalized_model_params[c]]
                              ELSE clients_personalized_model_params
                   /\ current_epoch' = current_epoch + 1
                   /\ server_pc' = server_pc
    /\ UNCHANGED <<train_clients, endpoints, tau, pers_epoch, testing, server_package,
                   sample_from, subregion_parameters, fwd, projVars, searchVars,
                   layerVars>>

\* The evaluation phase begins: self.testing = True
TestBegin ==
    /\ server_pc = "running"
    /\ server_package.none
    /\ ~testing
    /\ testing' = TRUE
    /\ UNCHANGED <<train_clients, endpoints, tau, pers_epoch, current_epoch,
                   projected_clients, clients_personalized_model_params, server_package,
                   sample_from, subregion_parameters, fwd, row_source, server_pc,
                   projVars, searchVars, layerVars>>

\* The evaluation phase ends: self.testing = False
TestEnd ==
    /\ server_pc = "running"
    /\ server_package.none
    /\ testing
    /\ testing' = FALSE
    /\ UNCHANGED <<train_clients, endpoints, tau, pers_epoch, current_epoch,
                   projected_clients, clients_personalized_model_params, server_package,
                   sample_from, subregion_parameters, fwd, row_source, server_pc,
                   projVars, searchVars, layerVars>>

\* package(client_id) (lines 74-93)
Package(client_id) ==
    /\ server_pc = "running"
    /\ server_package.none
    /\ server_package' =
          [none |-> FALSE,
           client |-> client_id,
           sample_from |-> SampleFrom(projected_clients, testing),
           subregion_parameters |-> SubregionParameters(projected_clients, client_id),
           personalized_model_params |->
               IF pers_epoch > 0 THEN clients_personalized_model_params[client_id]
               ELSE "",
           testing |-> testing,
           had_projection |-> projected_clients # None]
    /\ UNCHANGED <<train_clients, endpoints, tau, pers_epoch, current_epoch,
                   projected_clients, testing, clients_personalized_model_params,
                   sample_from, subregion_parameters, fwd, row_source, server_pc,
                   projVars, searchVars, layerVars>>

\* The receiving model takes sample_from and subregion_parameters from the
\* package, then SimplexModel.forward (lines 115-122) chooses alphas and hands
\* them to set_alphas.  Unpacking subregion_parameters = None raises.
Forward ==
    /\ server_pc = "running"
    /\ ~server_package.none
    /\ sample_from' = server_package.sample_from
    /\ subregion_parameters' = server_package.subregion_parameters
    /\ \E u \in UnitL1(endpoints), r \in Radii(server_package.subregion_parameters.radius) :
          LET raises ==
                  /\ server_package.sample_from # "simplex_center"
                  /\ server_package.subregion_parameters.none
              alphas ==
                  IF server_package.sample_from = "simplex_center"
                  THEN Uniform(endpoints)
                  ELSE IF raises THEN <<>>
                  ELSE sample_L1_ball(server_package.subregion_parameters.center, r, u)
          IN  fwd' = [done |-> TRUE,
                      client |-> server_package.client,
                      testing |-> server_package.testing,
                      had_projection |-> server_package.had_projection,
                      sample_from |-> server_package.sample_from,
                      alphas |-> alphas,
                      error |-> raises]
    /\ server_package' = NoPackage
    /\ UNCHANGED <<train_clients, endpoints, tau, pers_epoch, current_epoch,
                   projected_clients, testing, clients_personalized_model_params,
                   row_source, server_pc, projVars, searchVars, layerVars>>

Next ==
    \/ TrainOneRound
    \/ TestBegin
    \/ TestEnd
    \/ \E c \in train_clients : Package(c)
    \/ Forward

Spec == Init /\ [][Next]_vars

\* ------------------------------------------------------------------ claims
\* The sweep values done so far whose score is valid (finite)
ValidDone == {k \in 1..i : IsFinite(EnergyAt(pca_stats, k))}

\* C1 (as claimed): when no z of the sweep yields a finite score,
\* project_clients does not return: it raises.  The code returns
\* best_projection = None.
C1_ErrorWhenNoValidScore ==
    (\A k \in 1..SweepLen : ~IsFinite(EnergyAt(pca_stats, k))) => search_pc # "returned"

\* C2: a score that is +inf, -inf or NaN never becomes the best: after an
\* iteration with such a score the held best is not that iteration's, and
\* whenever a best projection is held, lowest_log_energy is finite and is the
\* score of the held projection.
C2_NonFiniteExcluded ==
    /\ (i >= 1 /\ ~IsFinite(log_energy)) => best_i # i
    /\ best_projection # None =>
          /\ best_i \in 1..i
          /\ IsFinite(lowest_log_energy)
          /\ LogEq(lowest_log_energy, EnergyAt(pca_stats, best_i))
          /\ best_projection = ProjectionAt(pca_stats, best_i)
    /\ best_projection = None => best_i = 0 /\ ValidDone = {}

\* C2's case: an iteration produced a non-finite score and was passed over
C2_Witness == i >= 1 /\ ~IsFinite(log_energy) /\ best_projection = None

\* C8: the held best is the first sweep value with the lowest valid score: no
\* valid score seen is lower, and none equal to it came earlier.
C8_TieKeepsFirst ==
    best_i # 0 =>
        \A k \in ValidDone :
            /\ ~LogLess(EnergyAt(pca_stats, k), EnergyAt(pca_stats, best_i))
            /\ LogEq(EnergyAt(pca_stats, k), EnergyAt(pca_stats, best_i)) => best_i <= k

\* C8's case: a later z scored exactly the held lowest score and did not
\* replace it
C8_Witness ==
    /\ best_i # 0
    /\ i > best_i
    /\ LogEq(log_energy, lowest_log_energy)
    /\ best_projection = ProjectionAt(pca_stats, best_i)

\* sum(row) = z for a row num / den and z = n / d
RowSumIs(r, z) ==
    BMul(BFromInt(SumSeq(r.num)), BFromInt(z.d)) = BMul(BFromInt(z.n), BFromInt(r.den))

\* C9 (as claimed): every row _project_client returns has entries >= 0 that
\* sum to z, so rho >= 1 and the row renormalises without a division by
\* zero.  Next to an entry that is a multiple of Huge the cap z is lost in
\* rounding, rho is 0 and the row is all 0 or all inf.
C9_ProjectionOnCappedSimplex ==
    proj_pc = "returned" =>
        \A r \in 1..Len(proj_out) :
            /\ proj_out[r].kind = "fin"
            /\ \A j \in 1..Len(proj_out[r].num) : proj_out[r].num[j] >= 0
            /\ RowSumIs(proj_out[r], proj_z)
            /\ ~IsNaNRow(NormaliseRow(proj_out[r]))

\* The spec's effective weight: the sum over the endpoints i of
\* coefficient_i * weight_i
RECURSIVE ConvexCombination(_, _, _)
ConvexCombination(coefs, weights, e) ==
    IF e = 0 THEN RZero
    ELSE RAdd(ConvexCombination(coefs, weights, e - 1), RScale(coefs[e], weights[e]))

\* C4: a set_alphas call whose vector's length differs from the endpoint count
\* raises and leaves the stored vector as it was; a call of the right length
\* stores its vector; the stored vector always has one coefficient per
\* endpoint.
C4_WrongLengthRejected ==
    /\ Len(_alphas) = lin_endpoints
    /\ set_log.called =>
          IF Len(set_log.arg) # lin_endpoints
          THEN set_log.raised /\ _alphas = set_log.before
          ELSE ~set_log.raised /\ _alphas = set_log.arg

\* C4's case: a call with a wrong length was made after a vector other than
\* the initial one had been stored
C4_Witness ==
    /\ set_log.called
    /\ Len(set_log.arg) # lin_endpoints
    /\ set_log.raised
    /\ _alphas # Uniform(lin_endpoints)

\* C5: every evaluation's effective weight is the convex combination of the
\* endpoint weights as they are at the evaluation, by the vector of the most
\* recent set_alphas that passed (the uniform vector if none).
C5_WeightFromLastSet ==
    \A c \in Callers :
        caller_eval[c].done =>
            caller_eval[c].w =
                ConvexCombination(caller_eval[c].by, caller_eval[c].weights, lin_endpoints)

\* C5's case: an evaluation made after the weights were updated and a vector
\* other than the initial one was set, whose result differs from what the
\* initial vector or the initial weights give
C5_Witness ==
    \E c \in Callers :
        /\ caller_eval[c].done
        /\ caller_eval[c].weights # InitialWeights(lin_endpoints)
        /\ caller_eval[c].by # Uniform(lin_endpoints)
        /\ caller_eval[c].w # weight(Uniform(lin_endpoints), caller_eval[c].weights)
        /\ caller_eval[c].w # weight(caller_eval[c].by, InitialWeights(lin_endpoints))

\* C10: when every caller runs set-then-evaluate as one unit, each evaluation
\* reads the vector its own caller set.
C10_SerialisedUsesOwnVector ==
    serialised =>
        \A c \in Callers : caller_eval[c].done => caller_eval[c].used = caller_eval[c].own

\* C10's case: without serialisation, an evaluation read the vector the other
\* caller set, not its own
C10_Witness ==
    /\ ~serialised
    /\ \E c, o \in Callers :
          /\ c # o
          /\ caller_eval[c].done
          /\ caller_eval[c].used # caller_eval[c].own
          /\ caller_eval[c].used = caller_alphas[o]

\* C3 (as claimed): for any set of participant identifiers, once
\* project_clients has laid out client_stats, no row is a missing vector and
\* row c, the one package reads as projected_clients[c], holds participant c's
\* own vector.  The code fills rows 0..N-1 first, so identifiers other than
\* 0..N-1 leave None rows and shift the others.
C3_RowPerParticipant ==
    row_source # <<>> =>
        /\ \A r \in 1..Len(row_source) : row_source[r] # NoneRow
        /\ \A c \in train_clients : c + 1 <= Len(row_source) /\ row_source[c + 1] = c

\* C6 (as claimed): every forward made for a package built while testing
\* supplies the uniform vector 1/E, before and after the projection.
C6_UniformWhenTesting ==
    (fwd.done /\ fwd.testing) => (~fwd.error /\ fwd.alphas = Uniform(endpoints))

\* The draws sample_L1_ball can return around participant c's projected row
RegionDraws(c) ==
    {sample_L1_ball(projected_clients[c + 1], r, u) :
        u \in UnitL1(endpoints), r \in Radii(floco_rho)}

\* C6 (amended): a forward made for a package built while testing supplies the
\* uniform vector 1/E as long as no projection is held; once a projection is
\* held the mode is "subregion_center" and the vector is a draw of
\* sample_L1_ball around the participant's projected row with radius rho.
C6_UniformWhenTestingBeforeProjection ==
    (fwd.done /\ fwd.testing) =>
        /\ ~fwd.error
        /\ IF fwd.had_projection
           THEN /\ fwd.sample_from = "subregion_center"
                /\ projected_clients # None
                /\ fwd.alphas \in RegionDraws(fwd.client)
           ELSE /\ fwd.sample_from = "simplex_center"
                /\ fwd.alphas = Uniform(endpoints)

\* C6's case: a forward made while testing after the projection, whose vector
\* is not the uniform one
C6_Witness ==
    /\ fwd.done
    /\ fwd.testing
    /\ fwd.had_projection
    /\ ~fwd.error
    /\ fwd.alphas # Uniform(endpoints)

\* C7 (as claimed): while the run goes on, projected_clients is absent up to
\* round tau and present after it.  project_clients returns None when no z
\* has a valid score (C1), so round tau can leave it absent.
C7_CreatedAtTau ==
    server_pc = "running" =>
        /\ current_epoch <= tau => projected_clients = None
        /\ current_epoch > tau => projected_clients # None

====
